---- MODULE Spec2Model ----
(***************************************************************************)
(* A model of camels.py: the Board state machine (position -> stack        *)
(* mapping plus the derived camel -> position index), the CamelDie round   *)
(* randomizer and the Game that composes them.                             *)
(*                                                                         *)
(* Python values are modelled by value: a list is a sequence, a dict is a  *)
(* function whose DOMAIN is the dict's key set, a CamelStack is the        *)
(* sequence held in its .camels field (bottom of the stack first).         *)
(* An exception is the err field of a call's result; a call that raises    *)
(* leaves the state as the code had it when the exception left the call.   *)
(* The piece universe is a set (no identifier twice in a camels list), and *)
(* a CamelDie is built without the optional die_state argument, as Game    *)
(* builds it.  random.shuffle and random.randint are nondeterministic      *)
(* choices over all permutations and over MIN_STEPS..MAX_STEPS.            *)
(*                                                                         *)
(* The specifications: SpecBoard (a Board driven by arbitrary move_camel   *)
(* calls), SpecDie (a CamelDie driven by roll_once and roll_finish_round), *)
(* SpecGame (a Game driven by one_step, finish_round and leaderboard),     *)
(* SpecCtor (the constructors of Board and Game on any dict, a camel       *)
(* listed twice included), SpecAlias (a Board and the caller that built    *)
(* it, with dicts, CamelStacks and lists followed by identity) and         *)
(* SpecWait (a Game whose last move_camel calls are remembered).           *)
(***************************************************************************)
EXTENDS Integers, Sequences, FiniteSets, TLC

\* ------------------------------------------------------------------ bounds

\* initial Track States use the position keys 1..MaxInitPos
MaxInitPos == 3
\* Board.move_camel is called with steps in -MaxSteps..MaxSteps
MaxSteps == 2
\* the track is followed over the positions -MaxNeg..MaxPos
MaxNeg == 1
MaxPos == 3
\* a caller changes the objects it holds at most MaxMutations times
MaxMutations == 1

\* ------------------------------------------------------- program constants

MIN_STEPS == 1
MAX_STEPS == 3

\* the piece identifiers: those of the program's entry point,
\* Game(['a', 'b', 'c']). Boards, dice and games are built over every subset.
Camels == {"a", "b", "c"}
NumCamels == Cardinality(Camels)
\* the pieces of the initial states whose objects are followed by identity
HeldCamels == {"a", "b"}

Positions == (0 - MaxNeg)..MaxPos
InitPositions == 1..MaxInitPos
AnySteps == (0 - MaxSteps)..MaxSteps

VARIABLES
    pos_to_stack,   \* Board.state.state.pos_to_stack
    camel_to_pos,   \* Board.state._camel_to_pos
    camels,         \* the piece universe: CamelDie._camels, as a set
    die_state,      \* CamelDie.state: the pool, popped from its end
    ret,            \* the last call: its name, its arguments, what it returned
    dealt,          \* history: the camels handed out since the last _reset_state
    last_round,     \* history: the camels handed out between the last two resets
    heap,           \* the dict, CamelStack and list objects, by identity
    refs,           \* who holds which dict: the caller's State, the Board's
    trail           \* history: the last move_camel calls of a Game, and
                    \* whether _reset_state has run since the last of them

vars == <<pos_to_stack, camel_to_pos, camels, die_state, ret, dealt,
          last_round, heap, refs, trail>>

\* the variables that only the specification they belong to follows
NoHeap == [dicts |-> <<>>, stacks |-> <<>>, lists |-> <<>>]
NoRefs == [init_state |-> 0, board |-> 0, got |-> 0, mutations |-> 0]
NoTrail == [moves |-> <<>>, pending |-> TRUE]

\* ------------------------------------------------------- lists and dicts

\* the elements of a list
Range(s) == {s[i] : i \in DOMAIN s}

\* d[k] = v
DictSet(d, k, v) == [x \in (DOMAIN d) \cup {k} |-> IF x = k THEN v ELSE d[x]]

\* del d[k]
DictDel(d, k) == [x \in (DOMAIN d) \ {k} |-> d[x]]

\* dict.get(k): None is modelled by the record field found = FALSE
DictGet(d, k) ==
    IF k \in DOMAIN d THEN [found |-> TRUE, value |-> d[k]]
    ELSE [found |-> FALSE, value |-> <<>>]

\* sorted(dict): the keys in ascending order
RECURSIVE sorted(_)
sorted(keys) ==
    IF keys = {} THEN <<>>
    ELSE LET least == CHOOSE k \in keys : \A j \in keys : k <= j
         IN <<least>> \o sorted(keys \ {least})

\* ------------------------------------------------------------- CamelStack

\* list.index(camel): the first place of camel, 0 when absent (ValueError)
ListIndex(cs, camel) ==
    IF camel \in Range(cs)
    THEN CHOOSE i \in 1..Len(cs) :
            cs[i] = camel /\ \A j \in 1..(i - 1) : cs[j] # camel
    ELSE 0

\* CamelStack.detach: what stays (camels) and what is split off (moved)
detach_keeps_all(cs, camel) ==
    LET camel_idx == ListIndex(cs, camel)
    IN [camels |-> cs, moved |-> SubSeq(cs, camel_idx, Len(cs))]

detach(cs, camel) ==
    LET camel_idx == ListIndex(cs, camel)
    IN [camels |-> SubSeq(cs, 1, camel_idx - 1),
        moved |-> SubSeq(cs, camel_idx, Len(cs))]

\* CamelStack.attach: the other stack lands on top
attach_below(cs, other) == other \o cs

attach(cs, other) == cs \o other

\* CamelStack.isempty
isempty(cs) == cs = <<>>

\* CamelStack.copy
StackCopy(cs) == [i \in 1..Len(cs) |-> cs[i]]

\* ------------------------------------------------------------------ State

\* State._copy: a new dict holding a copy of every stack
StateCopy(pts) == [pos \in DOMAIN pts |-> StackCopy(pts[pos])]

\* State.from_dict
from_dict(camel_dict) == StateCopy(camel_dict)

\* ---------------------------------------------------------- MoveableState

\* the assert, were idx to start empty again at every stack
IndexOk_per_stack(pts) ==
    \A pos \in DOMAIN pts : \A i, j \in DOMAIN pts[pos] :
        pts[pos][i] = pts[pos][j] => i = j

\* _index_camel_stacks: the assert fails when a camel is met twice
IndexOk(pts) ==
    \A p1, p2 \in DOMAIN pts : \A i \in DOMAIN pts[p1], j \in DOMAIN pts[p2] :
        pts[p1][i] = pts[p2][j] => (p1 = p2 /\ i = j)

index_camel_stacks(pts) ==
    LET on == UNION {Range(pts[pos]) : pos \in DOMAIN pts}
    IN [camel \in on |-> CHOOSE pos \in DOMAIN pts : camel \in Range(pts[pos])]

\* _detach_camelstack; the caller has checked that pos is a key holding camel
detach_camelstack(pts, pos, camel) ==
    LET d == detach(pts[pos], camel)
    IN [pts |-> IF isempty(d.camels) THEN DictDel(pts, pos)
                ELSE DictSet(pts, pos, d.camels),
        moved |-> d.moved]

\* _attach_camelstack: `not target_stack` is true of None only, a CamelStack
\* object (even an empty one) is truthy
attach_camelstack_replaces(pts, camelstack, newpos) ==
    DictSet(pts, newpos, camelstack)

attach_camelstack(pts, camelstack, newpos) ==
    LET target_stack == DictGet(pts, newpos)
    IN IF ~target_stack.found THEN DictSet(pts, newpos, camelstack)
       ELSE DictSet(pts, newpos, attach(target_stack.value, camelstack))

\* _update_index
update_index_only_first(idx, moved_stack, newpos) ==
    [camel \in DOMAIN idx |->
        IF moved_stack # <<>> /\ camel = moved_stack[1] THEN newpos ELSE idx[camel]]

\* _update_index, were it to leave the index as it is
update_index_forgotten(idx, moved_stack, newpos) ==
    idx

update_index(idx, moved_stack, newpos) ==
    [camel \in (DOMAIN idx) \cup Range(moved_stack) |->
        IF camel \in Range(moved_stack) THEN newpos ELSE idx[camel]]

\* move_camel_from_to, on the pair (pos_to_stack, _camel_to_pos).
\* pos_to_stack[pos] raises KeyError and list.index raises ValueError, both
\* before anything is assigned.
move_camel_from_to(pts, idx, camel, pos, newpos) ==
    IF pos \notin DOMAIN pts
    THEN [pts |-> pts, idx |-> idx, err |-> "KeyError"]
    ELSE IF ListIndex(pts[pos], camel) = 0
    THEN [pts |-> pts, idx |-> idx, err |-> "ValueError"]
    ELSE LET det == detach_camelstack(pts, pos, camel)
             oldstack_moved == det.moved
         IN [pts |-> attach_camelstack(det.pts, oldstack_moved, newpos),
             idx |-> update_index(idx, oldstack_moved, newpos),
             err |-> ""]

\* ------------------------------------------------------------------ Board

\* Board.move_camel: get_camel_pos raises KeyError for an unindexed camel
move_camel_unknown_at_zero(pts, idx, camel, steps) ==
    IF camel \notin DOMAIN idx
    THEN [pts |-> DictSet(pts, steps, <<camel>>),
          idx |-> update_index(idx, <<camel>>, steps), err |-> "KeyError"]
    ELSE move_camel_from_to(pts, idx, camel, idx[camel], idx[camel] + steps)

\* move_camel, were it to count the steps backwards
move_camel_backwards(pts, idx, camel, steps) ==
    IF camel \notin DOMAIN idx
    THEN [pts |-> pts, idx |-> idx, err |-> "KeyError"]
    ELSE move_camel_from_to(pts, idx, camel, idx[camel], idx[camel] - steps)

move_camel(pts, idx, camel, steps) ==
    IF camel \notin DOMAIN idx
    THEN [pts |-> pts, idx |-> idx, err |-> "KeyError"]
    ELSE LET curpos == idx[camel]
             newpos == curpos + steps
         IN move_camel_from_to(pts, idx, camel, curpos, newpos)

\* --------------------------------------------------------------- CamelDie

\* the orders shuffle() can leave a list of these pieces in
Perms(S) == {f \in [1..Cardinality(S) -> S] : Range(f) = S}

\* _reset_state, were it to draw every element of the pool anew from camels
reset_state_draws(cams) == [1..Cardinality(cams) -> cams]

\* _reset_state: list(self._camels), shuffled; every order is possible
reset_state(cams) == Perms(cams)

\* pop, were it to take the first element
pop_front(list) ==
    [item |-> Head(list), rest |-> Tail(list)]

\* list.pop(): the last element leaves the list
pop(list) ==
    [item |-> list[Len(list)], rest |-> SubSeq(list, 1, Len(list) - 1)]

\* randint(MIN_STEPS, MAX_STEPS)
StepDraws == MIN_STEPS..MAX_STEPS

\* roll_once without its random draw of steps: every (camel, pool) it can
\* end with. On an empty pool pop() raises IndexError, the handler resets
\* the pool and pops again; that second pop is outside the try.
roll_once_early_reset(state, cams) ==
    IF Len(state) > 1
    THEN {[camel |-> pop(state).item, state |-> pop(state).rest,
           err |-> "", reset |-> FALSE]}
    ELSE {IF fresh = <<>>
          THEN [camel |-> "", state |-> fresh, err |-> "IndexError", reset |-> TRUE]
          ELSE [camel |-> pop(fresh).item, state |-> pop(fresh).rest,
                err |-> "", reset |-> TRUE] : fresh \in reset_state(cams)}

roll_once_no_refill(state, cams) ==
    IF state # <<>>
    THEN {[camel |-> pop(state).item, state |-> pop(state).rest,
           err |-> "", reset |-> FALSE]}
    ELSE {[camel |-> "", state |-> state, err |-> "IndexError", reset |-> FALSE]}

roll_once(state, cams) ==
    IF state # <<>>
    THEN {[camel |-> pop(state).item, state |-> pop(state).rest,
           err |-> "", reset |-> FALSE]}
    ELSE {IF fresh = <<>>
          THEN [camel |-> "", state |-> fresh, err |-> "IndexError", reset |-> TRUE]
          ELSE [camel |-> pop(fresh).item, state |-> pop(fresh).rest,
                err |-> "", reset |-> TRUE] : fresh \in reset_state(cams)}

\* the while loop of roll_finish_round: the camels in the order popped
RECURSIVE pop_all_but_one(_)
pop_all_but_one(state) ==
    IF Len(state) <= 1 THEN <<>>
    ELSE <<pop(state).item>> \o pop_all_but_one(pop(state).rest)

RECURSIVE pop_all(_)
pop_all(state) ==
    IF state = <<>> THEN <<>>
    ELSE <<pop(state).item>> \o pop_all(pop(state).rest)

\* roll_finish_round: every list of (camel, steps) it can return
roll_finish_round(state) ==
    LET popped == pop_all(state)
    IN {[i \in 1..Len(popped) |-> [camel |-> popped[i], steps |-> draws[i]]] :
            draws \in [1..Len(popped) -> StepDraws]}

\* the camels of a list of (camel, steps) pairs
CamelsOf(rolls) == [i \in 1..Len(rolls) |-> rolls[i].camel]

\* ------------------------------------------------------------------- Game

\* a call and what came of it; the fields a call does not use stay as here.
\* moves lists the subjects of the move_camel calls the call made, in order;
\* arg is the dict a constructor call was given
NoCall ==
    [op |-> "init", camel |-> "", steps |-> 0, err |-> "", reset |-> FALSE,
     rolls |-> <<>>, order |-> <<>>, moves |-> <<>>, arg |-> <<>>]

\* the stacks of a literal {pos: [camels]} dict: perm lists the camels from
\* the bottom up, place gives each its position, empties the keys of empty lists
LayOut(perm, place, empties) ==
    [pos \in {place[c] : c \in DOMAIN place} \cup empties |->
        SelectSeq(perm, LAMBDA c : place[c] = pos)]

\* the dicts a caller hands to State.from_dict that Board.__init__ accepts:
\* no camel twice (the assert of _index_camel_stacks)
InitDicts ==
    UNION {UNION {{LayOut(perm, place, empties) :
                     empties \in SUBSET (InitPositions \ {place[c] : c \in S})} :
                  perm \in Perms(S), place \in [S -> InitPositions]} :
           S \in SUBSET Camels}

\* Game._extract_camels
extract_camels(pts) == UNION {Range(pts[pos]) : pos \in DOMAIN pts}

\* flatten_state
RECURSIVE flatten_positions(_, _)
flatten_positions(pts, positions) ==
    IF positions = <<>> THEN <<>>
    ELSE pts[Head(positions)] \o flatten_positions(pts, Tail(positions))

flatten_descending(pts) ==
    LET up == sorted(DOMAIN pts)
    IN flatten_positions(pts, [i \in 1..Len(up) |-> up[Len(up) + 1 - i]])

flatten_state(pts) == flatten_positions(pts, sorted(DOMAIN pts))

\* _produce_init_state, were it to slide each new camel under the stack
RECURSIVE produce_init_state_under(_, _)
produce_init_state_under(rolls, pts) ==
    IF rolls = <<>> THEN pts
    ELSE LET pos == Head(rolls).steps
             stack == IF pos \in DOMAIN pts THEN pts[pos] ELSE <<>>
         IN produce_init_state_under(Tail(rolls),
                DictSet(pts, pos, attach(<<Head(rolls).camel>>, stack)))

\* Game._produce_init_state: setdefault(pos, CamelStack([])).attach(...)
RECURSIVE produce_init_state(_, _)
produce_init_state(rolls, pts) ==
    IF rolls = <<>> THEN pts
    ELSE LET pos == Head(rolls).steps
             stack == IF pos \in DOMAIN pts THEN pts[pos] ELSE <<>>
         IN produce_init_state(Tail(rolls),
                DictSet(pts, pos, attach(stack, <<Head(rolls).camel>>)))

\* the loop, were it to leave the last outcome of the list unapplied
RECURSIVE move_all_stops_early(_, _, _)
move_all_stops_early(pts, idx, rolls) ==
    IF Len(rolls) <= 1
    THEN [pts |-> pts, idx |-> idx, err |-> "", subjects |-> <<>>]
    ELSE LET camel == Head(rolls).camel
             m == move_camel(pts, idx, camel, Head(rolls).steps)
         IN IF m.err # ""
            THEN [pts |-> m.pts, idx |-> m.idx, err |-> m.err,
                  subjects |-> <<camel>>]
            ELSE LET rest == move_all_stops_early(m.pts, m.idx, Tail(rolls))
                 IN [rest EXCEPT !.subjects = <<camel>> \o @]

\* the loop, were it to run over the list from its last outcome to its first
RECURSIVE move_all_last_first(_, _, _)
move_all_last_first(pts, idx, rolls) ==
    IF rolls = <<>>
    THEN [pts |-> pts, idx |-> idx, err |-> "", subjects |-> <<>>]
    ELSE LET last == rolls[Len(rolls)]
             m == move_camel(pts, idx, last.camel, last.steps)
         IN IF m.err # ""
            THEN [pts |-> m.pts, idx |-> m.idx, err |-> m.err,
                  subjects |-> <<last.camel>>]
            ELSE LET rest == move_all_last_first(m.pts, m.idx,
                                 SubSeq(rolls, 1, Len(rolls) - 1))
                 IN [rest EXCEPT !.subjects = <<last.camel>> \o @]

\* the loop of Game.finish_round: the first failing move_camel ends it;
\* subjects lists the camels move_camel was called with, in call order
RECURSIVE move_all(_, _, _)
move_all(pts, idx, rolls) ==
    IF rolls = <<>>
    THEN [pts |-> pts, idx |-> idx, err |-> "", subjects |-> <<>>]
    ELSE LET camel == Head(rolls).camel
             m == move_camel(pts, idx, camel, Head(rolls).steps)
         IN IF m.err # ""
            THEN [pts |-> m.pts, idx |-> m.idx, err |-> m.err,
                  subjects |-> <<camel>>]
            ELSE LET rest == move_all(m.pts, m.idx, Tail(rolls))
                 IN [rest EXCEPT !.subjects = <<camel>> \o @]

\* ------------------------------------------------- the objects, by identity
\* heap.dicts maps the id of a dict object to its items (position -> id of a
\* CamelStack), heap.stacks the id of a CamelStack to the id of the list its
\* attribute camels is bound to, heap.lists the id of a list to its elements.
\* A State is followed as its dict: State.pos_to_stack is bound once, in
\* __init__, and the State and its dict are handed on together or not at all.

\* the least id not in use among the objects f
FreshIn(f) ==
    CHOOSE i \in 1..(Cardinality(DOMAIN f) + 1) :
        i \notin DOMAIN f /\ \A j \in 1..(i - 1) : j \in DOMAIN f

\* [...]: a new list object
new_list(h, elems) ==
    LET id == FreshIn(h.lists)
    IN [h |-> [h EXCEPT !.lists = (id :> elems) @@ @], id |-> id]

\* CamelStack(camels): the new object's attribute is bound to the list given
new_CamelStack(h, list_id) ==
    LET id == FreshIn(h.stacks)
    IN [h |-> [h EXCEPT !.stacks = (id :> list_id) @@ @], id |-> id]

\* {}: a new dict object
new_dict(h) ==
    LET id == FreshIn(h.dicts)
    IN [h |-> [h EXCEPT !.dicts = (id :> <<>>) @@ @], id |-> id]

\* CamelStack.copy, were it CamelStack(self.camels): the list is shared
CamelStack_copy_shares_list(h, stack_id) ==
    new_CamelStack(h, h.stacks[stack_id])

\* CamelStack.copy: CamelStack(list(self.camels))
CamelStack_copy(h, stack_id) ==
    LET l == new_list(h, h.lists[h.stacks[stack_id]])
    IN new_CamelStack(l.h, l.id)

\* the for loop of State._copy: res[pos] = stack.copy()
RECURSIVE State_copy_items(_, _, _, _)
State_copy_items(h, src, res, keys) ==
    IF keys = <<>> THEN [h |-> h, id |-> res]
    ELSE LET pos == Head(keys)
             c == CamelStack_copy(h, h.dicts[src][pos])
         IN State_copy_items([c.h EXCEPT !.dicts[res] = DictSet(@, pos, c.id)],
                             src, res, Tail(keys))

\* State._copy, and so State.__init__
State__copy(h, dict_id) ==
    LET res == new_dict(h)
    IN State_copy_items(res.h, dict_id, res.id, sorted(DOMAIN h.dicts[dict_id]))

\* State.copy: State(self._copy(self.pos_to_stack)), two copies
State_copy(h, dict_id) ==
    LET c == State__copy(h, dict_id)
    IN State__copy(c.h, c.id)

\* the for loop of State.from_dict: res[pos] = CamelStack(list(camels))
RECURSIVE from_dict_items(_, _, _, _)
from_dict_items(h, camel_dict, res, keys) ==
    IF keys = <<>> THEN [h |-> h, id |-> res]
    ELSE LET pos == Head(keys)
             l == new_list(h, camel_dict[pos])
             c == new_CamelStack(l.h, l.id)
         IN from_dict_items([c.h EXCEPT !.dicts[res] = DictSet(@, pos, c.id)],
                            camel_dict, res, Tail(keys))

\* State.from_dict(camel_dict): State(res)
State_from_dict(h, camel_dict) ==
    LET res == new_dict(h)
        filled == from_dict_items(res.h, camel_dict, res.id,
                                  sorted(DOMAIN camel_dict))
    IN State__copy(filled.h, filled.id)

\* the position -> list of camels value that a dict object stands for
ValueOf(h, dict_id) ==
    [pos \in DOMAIN h.dicts[dict_id] |->
        h.lists[h.stacks[h.dicts[dict_id][pos]]]]

\* the objects that can be reached from a dict object
StacksOf(h, dict_id) == Range(h.dicts[dict_id])
ListsOf(h, dict_id) == {h.stacks[s] : s \in StacksOf(h, dict_id)}

\* the CamelStacks of the dicts ds, read dict by dict and by ascending key
RECURSIVE StackSeq(_, _)
StackSeq(h, ds) ==
    IF ds = <<>> THEN <<>>
    ELSE LET keys == sorted(DOMAIN h.dicts[Head(ds)])
         IN [i \in 1..Len(keys) |-> h.dicts[Head(ds)][keys[i]]]
               \o StackSeq(h, Tail(ds))

\* objects that nothing refers to any longer are gone; an id says nothing
\* but which object is which, so the CamelStacks and lists that are left are
\* numbered in the order in which they are met from the dicts held
Collect(h, roots) ==
    LET live == roots \ {0}
        stackseq == StackSeq(h, sorted(live))
        listseq == [i \in DOMAIN stackseq |-> h.stacks[stackseq[i]]]
    IN [dicts |-> [d \in live |->
                     [pos \in DOMAIN h.dicts[d] |->
                         ListIndex(stackseq, h.dicts[d][pos])]],
        stacks |-> [n \in {ListIndex(stackseq, x) : x \in Range(stackseq)} |->
                      ListIndex(listseq, h.stacks[stackseq[n]])],
        lists |-> [n \in {ListIndex(listseq, x) : x \in Range(listseq)} |->
                     h.lists[listseq[n]]]]

\* CamelStack.detach on the object stack_id: two new lists are sliced off,
\* self.camels is bound to the first and a new CamelStack holds the second
CamelStack_detach(h, stack_id, camel) ==
    LET elems == h.lists[h.stacks[stack_id]]
        camel_idx == ListIndex(elems, camel)
        moved == new_list(h, SubSeq(elems, camel_idx, Len(elems)))
        kept == new_list(moved.h, SubSeq(elems, 1, camel_idx - 1))
        bound == [kept.h EXCEPT !.stacks[stack_id] = kept.id]
    IN new_CamelStack(bound, moved.id)

\* CamelStack.attach on the object stack_id: its list is extended in place
CamelStack_attach(h, stack_id, other_id) ==
    [h EXCEPT !.lists[h.stacks[stack_id]] = @ \o h.lists[h.stacks[other_id]]]

\* Board.move_camel on the Board whose State holds the dict board
Board_move_camel(h, board, idx, camel, steps) ==
    IF camel \notin DOMAIN idx
    THEN [h |-> h, idx |-> idx, err |-> "KeyError"]
    ELSE LET pos == idx[camel]
             newpos == pos + steps
         IN IF pos \notin DOMAIN h.dicts[board]
            THEN [h |-> h, idx |-> idx, err |-> "KeyError"]
            ELSE LET oldstack == h.dicts[board][pos]
                 IN IF ListIndex(h.lists[h.stacks[oldstack]], camel) = 0
                    THEN [h |-> h, idx |-> idx, err |-> "ValueError"]
                    ELSE LET det == CamelStack_detach(h, oldstack, camel)
                             h1 == IF isempty(det.h.lists[det.h.stacks[oldstack]])
                                   THEN [det.h EXCEPT !.dicts[board] = DictDel(@, pos)]
                                   ELSE det.h
                             target_stack == DictGet(h1.dicts[board], newpos)
                             h2 == IF ~target_stack.found
                                   THEN [h1 EXCEPT !.dicts[board] =
                                             DictSet(@, newpos, det.id)]
                                   ELSE CamelStack_attach(h1, target_stack.value,
                                                          det.id)
                         IN [h |-> h2,
                             idx |-> update_index(idx, h1.lists[h1.stacks[det.id]],
                                                  newpos),
                             err |-> ""]

\* ------------------------------------------------- the Board on its own

\* Board(State.from_dict(d)): State.__init__ copies, Board.__init__ copies
\* again, consume() indexes
BoardInit ==
    \E camel_dict \in InitDicts :
        /\ IndexOk(from_dict(camel_dict))
        /\ pos_to_stack = StateCopy(StateCopy(from_dict(camel_dict)))
        /\ camel_to_pos = index_camel_stacks(pos_to_stack)
        /\ camels = extract_camels(camel_dict)
        /\ die_state = <<>>
        /\ ret = NoCall
        /\ dealt = <<>>
        /\ last_round = <<>>
        /\ heap = NoHeap /\ refs = NoRefs /\ trail = NoTrail

\* board.move_camel(camel, steps), for any camel and any steps
BoardMove ==
    \E camel \in Camels, steps \in AnySteps :
        /\ camel \in DOMAIN camel_to_pos
             => camel_to_pos[camel] + steps \in Positions
        /\ \E m \in {move_camel(pos_to_stack, camel_to_pos, camel, steps)} :
             /\ pos_to_stack' = m.pts
             /\ camel_to_pos' = m.idx
             /\ ret' = [NoCall EXCEPT !.op = "move_camel", !.camel = camel,
                                      !.steps = steps, !.err = m.err,
                                      !.moves = <<camel>>]
        /\ UNCHANGED <<camels, die_state, dealt, last_round>>
        /\ UNCHANGED <<heap, refs, trail>>

BoardNext == BoardMove

SpecBoard == BoardInit /\ [][BoardNext]_vars

\* ---------------------------------------------- the CamelDie on its own

\* CamelDie(camels): die_state is None, so the pool is _reset_state()'s
DieInit ==
    \E cams \in SUBSET Camels :
        /\ camels = cams
        /\ die_state \in reset_state(cams)
        /\ pos_to_stack = <<>>
        /\ camel_to_pos = <<>>
        /\ ret = NoCall
        /\ dealt = <<>>
        /\ last_round = <<>>
        /\ heap = NoHeap /\ refs = NoRefs /\ trail = NoTrail

\* die.roll_once(); steps is drawn only when a camel was popped
DieRollOnce ==
    \E r \in roll_once(die_state, camels), steps \in StepDraws :
        /\ die_state' = r.state
        /\ ret' = [NoCall EXCEPT !.op = "roll_once", !.camel = r.camel,
                                 !.steps = IF r.err = "" THEN steps ELSE 0,
                                 !.err = r.err, !.reset = r.reset]
        /\ dealt' = IF r.err # "" THEN (IF r.reset THEN <<>> ELSE dealt)
                    ELSE IF r.reset THEN <<r.camel>>
                    ELSE Append(dealt, r.camel)
        /\ last_round' = IF r.reset THEN dealt ELSE last_round
        /\ UNCHANGED <<pos_to_stack, camel_to_pos, camels>>
        /\ UNCHANGED <<heap, refs, trail>>

\* die.roll_finish_round(): drain the pool, then _reset_state()
DieRollFinishRound ==
    \E rolls \in roll_finish_round(die_state) :
        /\ die_state' \in reset_state(camels)
        /\ ret' = [NoCall EXCEPT !.op = "roll_finish_round", !.rolls = rolls,
                                 !.reset = TRUE]
        /\ dealt' = <<>>
        /\ last_round' = dealt \o CamelsOf(rolls)
        /\ UNCHANGED <<pos_to_stack, camel_to_pos, camels>>
        /\ UNCHANGED <<heap, refs, trail>>

DieNext == DieRollOnce \/ DieRollFinishRound

SpecDie == DieInit /\ [][DieNext]_vars

\* --------------------------------------------------------------- the Game
\* (dealt and last_round, the die's history, are followed in SpecDie only)

\* Game(init_state=State.from_dict(d)): the universe is read off the state,
\* the die is built, _infer_state copies the state and Board copies it again
Game_init(camel_dict) ==
    /\ IndexOk(from_dict(camel_dict))
    /\ camels = extract_camels(from_dict(camel_dict))
    /\ die_state \in reset_state(camels)
    /\ pos_to_stack = StateCopy(StateCopy(from_dict(camel_dict)))
    /\ camel_to_pos = index_camel_stacks(pos_to_stack)
    /\ ret = NoCall
    /\ dealt = <<>>
    /\ last_round = <<>>
    /\ heap = NoHeap /\ refs = NoRefs /\ trail = NoTrail

GameInitFromState == \E camel_dict \in InitDicts : Game_init(camel_dict)

\* Game(camels): the die is built, _produce_init_state uses up one
\* roll_finish_round, the Board copies the produced state
GameInitFromCamels ==
    \E cams \in SUBSET Camels :
        \E first \in reset_state(cams), fresh \in reset_state(cams) :
            \E rolls \in roll_finish_round(first) :
                /\ camels = cams
                /\ die_state = fresh
                /\ pos_to_stack = StateCopy(StateCopy(produce_init_state(rolls, <<>>)))
                /\ camel_to_pos = index_camel_stacks(pos_to_stack)
                /\ ret = [NoCall EXCEPT !.rolls = rolls, !.reset = TRUE]
                /\ dealt = <<>>
                /\ last_round = <<>>
                /\ heap = NoHeap /\ refs = NoRefs /\ trail = NoTrail

GameInit == GameInitFromState \/ GameInitFromCamels

\* the track is followed while no camel has passed MaxPos
OnTrack(idx) == \A c \in DOMAIN idx : idx[c] <= MaxPos

\* game.one_step(): when roll_once raises, move_camel is not reached
one_step ==
    \E r \in roll_once(die_state, camels), steps \in StepDraws :
        \E m \in {IF r.err # ""
                  THEN [pts |-> pos_to_stack, idx |-> camel_to_pos, err |-> r.err]
                  ELSE move_camel(pos_to_stack, camel_to_pos, r.camel, steps)} :
           /\ OnTrack(m.idx)
           /\ die_state' = r.state
           /\ pos_to_stack' = m.pts
           /\ camel_to_pos' = m.idx
           /\ ret' = [NoCall EXCEPT !.op = "one_step", !.camel = r.camel,
                                    !.steps = IF r.err = "" THEN steps ELSE 0,
                                    !.err = m.err, !.reset = r.reset,
                                    !.moves = IF r.err = "" THEN <<r.camel>>
                                              ELSE <<>>]
           /\ UNCHANGED <<camels, dealt, last_round, heap, refs>>

GameOneStep == one_step /\ UNCHANGED trail

\* game.finish_round(): the whole list is rolled, then moved one by one
finish_round ==
    \E rolls \in roll_finish_round(die_state) :
        \E m \in {move_all(pos_to_stack, camel_to_pos, rolls)} :
           /\ OnTrack(m.idx)
           /\ die_state' \in reset_state(camels)
           /\ pos_to_stack' = m.pts
           /\ camel_to_pos' = m.idx
           /\ ret' = [NoCall EXCEPT !.op = "finish_round", !.rolls = rolls,
                                    !.err = m.err, !.reset = TRUE,
                                    !.moves = m.subjects]
           /\ UNCHANGED <<camels, dealt, last_round, heap, refs>>

GameFinishRound == finish_round /\ UNCHANGED trail

\* game.leaderboard()
GameLeaderboard ==
    /\ ret' = [NoCall EXCEPT !.op = "leaderboard",
                             !.order = flatten_state(pos_to_stack)]
    /\ UNCHANGED <<pos_to_stack, camel_to_pos, camels, die_state, dealt, last_round>>
    /\ UNCHANGED <<heap, refs, trail>>

GameNext == GameOneStep \/ GameFinishRound \/ GameLeaderboard

SpecGame == GameInit /\ [][GameNext]_vars

\* ------------------------------------- the Game, with its moves remembered

\* the dicts that start every camel on one stack at position 1, so that the
\* track has its whole length ahead
StartDicts == {d \in InitDicts : DOMAIN d = {1} /\ d[1] # <<>>}

WaitInit == \E camel_dict \in StartDicts : Game_init(camel_dict)

\* the moves of a call, as the trail remembers them. shuffled: _reset_state
\* has run after the move before and before this move; new_round: the pool
\* was full when the move's camel was popped, so it is the first outcome
\* handed out after a reshuffle. roll_once resets before it pops;
\* roll_finish_round pops the whole list and resets before finish_round
\* makes the first of its moves.
MovesOf(call, pool, pending) ==
    [i \in 1..Len(call.moves) |->
        [camel |-> call.moves[i],
         shuffled |-> i = 1 /\ (call.reset \/ pending),
         new_round |-> /\ i = 1
                       /\ \/ Len(pool) = Cardinality(camels)
                          \/ call.op = "one_step" /\ call.reset]]

\* as many of the last moves as 2n - 1 moves and one finish_round more
TrailLen == IF camels = {} THEN 0 ELSE 3 * Cardinality(camels) - 2

\* the last n elements of a list
LastOf(list, n) ==
    IF Len(list) <= n THEN list ELSE SubSeq(list, Len(list) - n + 1, Len(list))

Remember ==
    trail' = [moves |-> LastOf(trail.moves \o MovesOf(ret', die_state, trail.pending),
                               TrailLen),
              pending |-> ret'.moves = <<>> /\ (ret'.reset \/ trail.pending)]

WaitOneStep == one_step /\ Remember

WaitFinishRound == finish_round /\ Remember

WaitNext == WaitOneStep \/ WaitFinishRound

SpecWait == WaitInit /\ [][WaitNext]_vars

\* ------------------------------------------- the constructors on any dict

\* a dict of InitDicts with one of its camels put once more on top of the
\* list at some position: a camel listed twice, in two lists or in one
DupDicts ==
    UNION {{DictSet(d, pos,
                Append(IF pos \in DOMAIN d THEN d[pos] ELSE <<>>, c)) :
              pos \in InitPositions, c \in extract_camels(d)} :
           d \in InitDicts}

\* Board.__init__: init_state.copy(), then consume() indexes the copy; the
\* assert of _index_camel_stacks ends the construction with AssertionError
Board_init(init_state) ==
    LET pts == StateCopy(StateCopy(init_state))
    IN IF IndexOk(pts)
       THEN [pts |-> pts, idx |-> index_camel_stacks(pts), err |-> ""]
       ELSE [pts |-> <<>>, idx |-> <<>>, err |-> "AssertionError"]

\* no Board, no Game and no die exist yet
CtorInit ==
    /\ pos_to_stack = <<>>
    /\ camel_to_pos = <<>>
    /\ camels = {}
    /\ die_state = <<>>
    /\ ret = NoCall
    /\ dealt = <<>>
    /\ last_round = <<>>
    /\ heap = NoHeap /\ refs = NoRefs /\ trail = NoTrail

\* Board(State.from_dict(d)) for any dict d, as the first call of the run;
\* when it raises, there is no Board
NewBoard ==
    \E d \in InitDicts \cup DupDicts :
        \E b \in {Board_init(from_dict(d))} :
           /\ ret.op = "init"
           /\ pos_to_stack' = b.pts
           /\ camel_to_pos' = b.idx
           /\ camels' = IF b.err = "" THEN extract_camels(d) ELSE {}
           /\ die_state' = <<>>
           /\ ret' = [NoCall EXCEPT !.op = "Board", !.arg = d, !.err = b.err]
           /\ UNCHANGED <<dealt, last_round>>
           /\ UNCHANGED <<heap, refs, trail>>

\* Game(init_state=State.from_dict(d)) for any dict d: _infer_camels and
\* CamelDie succeed on any dict, _infer_state copies, Board.__init__ may
\* raise, and then there is no Game
NewGame ==
    \E d \in InitDicts \cup DupDicts :
        \E b \in {Board_init(StateCopy(from_dict(d)))} :
           /\ ret.op = "init"
           /\ pos_to_stack' = b.pts
           /\ camel_to_pos' = b.idx
           /\ camels' = IF b.err = "" THEN extract_camels(from_dict(d)) ELSE {}
           /\ die_state' \in IF b.err = "" THEN reset_state(camels') ELSE {<<>>}
           /\ ret' = [NoCall EXCEPT !.op = "Game", !.arg = d, !.err = b.err]
           /\ UNCHANGED <<dealt, last_round>>
           /\ UNCHANGED <<heap, refs, trail>>

CtorNext == NewBoard \/ NewGame

SpecCtor == CtorInit /\ [][CtorNext]_vars

\* --------------------------------- a Board, its caller and the state they hold
\* (the die is not followed here)

\* what the caller and the Board hold
Roots(r) == {r.init_state, r.board, r.got}

\* the dicts of InitDicts that list camels of HeldCamels only, and no
\* empty list
HeldDicts ==
    {d \in InitDicts : /\ extract_camels(d) \subseteq HeldCamels
                       /\ \A pos \in DOMAIN d : d[pos] # <<>>}

\* init_state = State.from_dict(d), then Board(init_state) or
\* Game(init_state=init_state): _infer_state copies, Board.__init__ copies
AliasInit ==
    \E camel_dict \in HeldDicts, game \in BOOLEAN :
        LET init_state == State_from_dict(NoHeap, camel_dict)
            inferred == IF game THEN State_copy(init_state.h, init_state.id)
                        ELSE init_state
            board == State_copy(inferred.h, inferred.id)
        IN /\ refs = [NoRefs EXCEPT !.init_state = init_state.id,
                                    !.board = board.id]
           /\ heap = Collect(board.h, Roots(refs))
           /\ pos_to_stack = ValueOf(heap, refs.board)
           /\ camel_to_pos = index_camel_stacks(pos_to_stack)
           /\ camels = extract_camels(camel_dict)
           /\ die_state = <<>>
           /\ ret = NoCall
           /\ dealt = <<>>
           /\ last_round = <<>>
           /\ trail = NoTrail

\* board.move_camel(camel, steps) of an indexed camel, forwards or by 0,
\* while on the track
AliasMove ==
    \E camel \in DOMAIN camel_to_pos, steps \in 0..MaxSteps :
        /\ camel_to_pos[camel] + steps <= MaxPos
        /\ \E m \in {Board_move_camel(heap, refs.board, camel_to_pos, camel, steps)} :
             /\ heap' = Collect(m.h, Roots(refs))
             /\ camel_to_pos' = m.idx
             /\ pos_to_stack' = ValueOf(heap', refs.board)
             /\ ret' = [NoCall EXCEPT !.op = "move_camel", !.camel = camel,
                                      !.steps = steps, !.err = m.err,
                                      !.moves = <<camel>>]
        /\ UNCHANGED <<camels, die_state, dealt, last_round, refs, trail>>

\* got = board.state.state.get(): State.get returns self.pos_to_stack
StateGet ==
    /\ refs.got = 0
    /\ refs' = [refs EXCEPT !.got = refs.board]
    /\ ret' = [NoCall EXCEPT !.op = "State.get"]
    /\ UNCHANGED <<pos_to_stack, camel_to_pos, camels, die_state, dealt,
                   last_round, heap, trail>>

\* board.state.get(), as the first call made: MoveableState.get calls
\* self.state, a State, which is not callable
MoveableStateGet ==
    /\ ret.op = "init"
    /\ ret' = [NoCall EXCEPT !.op = "MoveableState.get", !.err = "TypeError"]
    /\ UNCHANGED <<pos_to_stack, camel_to_pos, camels, die_state, dealt,
                   last_round, heap, refs, trail>>

\* the dict the caller reaches as init_state.pos_to_stack, or as got
HeldAs(name) == IF name = "got" THEN refs.got ELSE refs.init_state

\* the caller has changed heap into h through the dict it holds as name
CallerDid(name, what, h) ==
    /\ heap' = Collect(h, Roots(refs))
    /\ refs' = [refs EXCEPT !.mutations = @ + 1]
    /\ pos_to_stack' = ValueOf(heap', refs.board)
    /\ ret' = [NoCall EXCEPT !.op = what, !.arg = name]
    /\ UNCHANGED <<camel_to_pos, camels, die_state, dealt, last_round, trail>>

\* the caller: del d[pos], on a dict d it holds
CallerDel ==
    \E name \in {"init_state", "got"} :
        /\ HeldAs(name) # 0 /\ refs.mutations < MaxMutations
        /\ \E pos \in DOMAIN heap.dicts[HeldAs(name)] :
              CallerDid(name, "del",
                  [heap EXCEPT !.dicts[HeldAs(name)] = DictDel(@, pos)])

\* the caller: d[pos].detach(camel), on a dict d it holds
CallerDetach ==
    \E name \in {"init_state", "got"} :
        /\ HeldAs(name) # 0 /\ refs.mutations < MaxMutations
        /\ \E pos \in DOMAIN heap.dicts[HeldAs(name)] :
              \E camel \in Range(ValueOf(heap, HeldAs(name))[pos]) :
                 CallerDid(name, "detach",
                     CamelStack_detach(heap, heap.dicts[HeldAs(name)][pos],
                                       camel).h)

\* the caller: d[pos].attach(CamelStack([camel])), on a dict d it holds,
\* with a camel that d does not list
CallerAttach ==
    \E name \in {"init_state", "got"} :
        /\ HeldAs(name) # 0 /\ refs.mutations < MaxMutations
        /\ \E pos \in DOMAIN heap.dicts[HeldAs(name)] :
              \E camel \in Camels \ extract_camels(ValueOf(heap, HeldAs(name))) :
                 LET l == new_list(heap, <<camel>>)
                     other == new_CamelStack(l.h, l.id)
                 IN CallerDid(name, "attach",
                        CamelStack_attach(other.h,
                            heap.dicts[HeldAs(name)][pos], other.id))

AliasNext ==
    \/ AliasMove
    \/ StateGet
    \/ MoveableStateGet
    \/ CallerDel
    \/ CallerDetach
    \/ CallerAttach

SpecAlias == AliasInit /\ [][AliasNext]_vars

\* ------------------------------------------------ properties of the Board

\* the places (position, height) at which camel c stands on the track
PlacesOf(c) ==
    {pl \in UNION {{<<pos, i>> : i \in DOMAIN pos_to_stack[pos]} :
                     pos \in DOMAIN pos_to_stack} :
        pos_to_stack[pl[1]][pl[2]] = c}

\* the last call was a move_camel that went through
Moved == ret.op = "move_camel" /\ ret.err = ""

\* C1 (uniqueness): every piece of the universe (the pieces of the
\* duplicate-free initial Track State) stands at exactly one place of the
\* track, and no other piece stands on it: no move duplicates or loses one.
Uniqueness ==
    /\ \A c \in camels : Cardinality(PlacesOf(c)) = 1
    /\ \A c \in Camels \ camels : PlacesOf(c) = {}

\* C1's case: a move with a carry has put all the pieces on one stack
UniquenessWitness ==
    /\ Moved /\ ret.steps # 0
    /\ camels = Camels
    /\ \E pos \in DOMAIN pos_to_stack :
          /\ Len(pos_to_stack[pos]) = NumCamels
          /\ pos_to_stack[pos][NumCamels - 1] = ret.camel

\* C2 (index consistency): index[p] = pos exactly when p is a member of the
\* stack at track[pos]; the index's keys are the pieces on the track.
IndexConsistency ==
    /\ DOMAIN camel_to_pos = UNION {Range(pos_to_stack[pos]) : pos \in DOMAIN pos_to_stack}
    /\ \A p \in Camels : \A pos \in (DOMAIN pos_to_stack) \cup Positions :
          (p \in DOMAIN camel_to_pos /\ camel_to_pos[p] = pos)
             <=> (pos \in DOMAIN pos_to_stack /\ p \in Range(pos_to_stack[pos]))

\* C2's case: a move has carried a second piece along to a new position
IndexConsistencyWitness ==
    /\ Moved /\ ret.steps # 0
    /\ LET stack == pos_to_stack[camel_to_pos[ret.camel]]
       IN /\ Len(stack) >= 2
          /\ stack[Len(stack)] # ret.camel

\* C3 (non-empty stacks): no position key of the Board's Track State maps to
\* an empty stack, from construction onward.
NoEmptyStack ==
    \A pos \in DOMAIN pos_to_stack : pos_to_stack[pos] # <<>>

\* C6 (carry-along): the stack at cur reads X ++ [p] ++ Y; after move(p, s)
\* with s # 0, cur holds X (no key cur when X is empty), cur + s holds what it
\* held followed by [p] ++ Y, the index sends p and Y to cur + s, and every
\* other position and every other index entry is as before.
CarryAlongStep ==
    (ret'.op = "move_camel" /\ ret'.err = "" /\ ret'.steps # 0) =>
        LET p == ret'.camel
            cur == camel_to_pos[p]
            dest == cur + ret'.steps
            stack == pos_to_stack[cur]
            k == CHOOSE i \in DOMAIN stack : stack[i] = p
            X == SubSeq(stack, 1, k - 1)
            pY == SubSeq(stack, k, Len(stack))
            before == IF dest \in DOMAIN pos_to_stack THEN pos_to_stack[dest] ELSE <<>>
        IN /\ IF X = <<>> THEN cur \notin DOMAIN pos_to_stack'
              ELSE cur \in DOMAIN pos_to_stack' /\ pos_to_stack'[cur] = X
           /\ dest \in DOMAIN pos_to_stack'
           /\ pos_to_stack'[dest] = before \o pY
           /\ \A q \in Range(pY) : camel_to_pos'[q] = dest
           /\ DOMAIN pos_to_stack' \ {cur, dest} = DOMAIN pos_to_stack \ {cur, dest}
           /\ \A pos \in DOMAIN pos_to_stack \ {cur, dest} :
                 pos_to_stack'[pos] = pos_to_stack[pos]
           /\ DOMAIN camel_to_pos' = DOMAIN camel_to_pos
           /\ \A q \in DOMAIN camel_to_pos \ Range(pY) :
                 camel_to_pos'[q] = camel_to_pos[q]

CarryAlong == [][CarryAlongStep]_vars

\* C6's case: the moved piece carried one along and landed on an occupied
\* position
CarryAlongWitness ==
    /\ Moved /\ ret.steps # 0
    /\ LET cur == camel_to_pos[ret.camel]
           stack == pos_to_stack[cur]
       IN /\ Len(stack) >= 3
          /\ stack[1] # ret.camel
          /\ stack[Len(stack)] # ret.camel

\* C7 (no-op move): move(p, 0) leaves the position -> stack mapping and the
\* index exactly as they were.
NoOpMoveStep ==
    (ret'.op = "move_camel" /\ ret'.err = "" /\ ret'.steps = 0) =>
        /\ pos_to_stack' = pos_to_stack
        /\ camel_to_pos' = camel_to_pos

NoOpMove == [][NoOpMoveStep]_vars

\* C7's case: move(p, 0) was applied to a piece in the middle of its stack
NoOpMoveWitness ==
    /\ Moved /\ ret.steps = 0
    /\ LET stack == pos_to_stack[camel_to_pos[ret.camel]]
       IN /\ Len(stack) >= 3
          /\ stack[1] # ret.camel
          /\ stack[Len(stack)] # ret.camel

\* C8 (failure before mutation): move_camel with a piece that is not in the
\* index fails, and the Track State and the index are what they were.
FailureBeforeMutationStep ==
    (ret'.op = "move_camel" /\ ret'.camel \notin DOMAIN camel_to_pos) =>
        /\ ret'.err = "KeyError"
        /\ pos_to_stack' = pos_to_stack
        /\ camel_to_pos' = camel_to_pos

FailureBeforeMutation == [][FailureBeforeMutationStep]_vars

\* C8's case: a move of an unindexed piece has failed on a Board that holds
\* other pieces
FailureBeforeMutationWitness ==
    /\ ret.op = "move_camel" /\ ret.err = "KeyError"
    /\ ret.camel \notin DOMAIN camel_to_pos
    /\ DOMAIN camel_to_pos # {}

\* --------------------------------------------- properties of the CamelDie

\* no element twice
NoDup(list) == \A i, j \in DOMAIN list : list[i] = list[j] => i = j

\* every element of S exactly once, and nothing else
IsPerm(list, S) == NoDup(list) /\ Range(list) = S

\* C4 as claimed (round completeness): every roll_finish_round, in any die
\* state that roll_once and roll_finish_round calls lead to, returns every
\* piece of the universe exactly once.
RoundCompleteness ==
    ret.op = "roll_finish_round" => IsPerm(CamelsOf(ret.rolls), camels)

\* C4 as amended: roll_finish_round returns exactly once each piece that
\* roll_once has not handed out since the last reshuffle, and no other; so it
\* returns the whole universe when no roll_once came since the last reshuffle.
RoundRemainderStep ==
    ret'.op = "roll_finish_round" =>
        /\ NoDup(CamelsOf(ret'.rolls))
        /\ Range(CamelsOf(ret'.rolls)) = camels \ Range(dealt)
        /\ dealt = <<>> => IsPerm(CamelsOf(ret'.rolls), camels)

RoundRemainder == [][RoundRemainderStep]_vars

\* C4's case: roll_finish_round was called after one roll_once of the round
\* and returned the other pieces
RoundRemainderWitness ==
    /\ ret.op = "roll_finish_round"
    /\ camels = Camels
    /\ Len(ret.rolls) = NumCamels - 1
    /\ Len(last_round) = NumCamels

\* C5 (exactly once per round): the pieces handed out since the last
\* reshuffle are all different; when a reshuffle comes, the pieces handed out
\* since the one before (or since construction) are the whole universe, each
\* once; every step count returned is in [1, 3].
ExactlyOncePerRound ==
    /\ NoDup(dealt)
    /\ Range(dealt) \subseteq camels
    /\ ret.reset => IsPerm(last_round, camels)
    /\ last_round = <<>> \/ IsPerm(last_round, camels)
    /\ (ret.op = "roll_once" /\ ret.err = "") => ret.steps \in 1..3
    /\ \A i \in DOMAIN ret.rolls : ret.rolls[i].steps \in 1..3

\* C5's case: a roll_once met the empty pool, reshuffled, and the round it
\* closed was made of roll_once calls
ExactlyOncePerRoundWitness ==
    /\ ret.op = "roll_once" /\ ret.reset /\ ret.err = ""
    /\ camels = Camels
    /\ Len(last_round) = NumCamels
    /\ Len(dealt) = 1

\* what C9 says of a roll_once call
RollOnceTransparent ==
    /\ ret'.err = ""
    /\ ret'.camel \in camels
    /\ ret'.steps \in 1..3
    /\ die_state = <<>> =>
          /\ ret'.reset
          /\ IsPerm(Append(die_state', ret'.camel), camels)

\* C9 as claimed (transparent round boundary): roll_once never fails, in any
\* state of a die constructed from a piece set; on an empty pool it refills
\* the pool with a permutation of the piece set and returns one piece of it
\* with steps in [1, 3], the others staying in the pool.
TransparentBoundaryAnyDie ==
    [][ret'.op = "roll_once" => RollOnceTransparent]_vars

\* C9 as amended: the same, of a die constructed from a non-empty piece set.
TransparentBoundary ==
    [][(ret'.op = "roll_once" /\ camels # {}) => RollOnceTransparent]_vars

\* C9's case: roll_once was called on the empty pool and returned a piece
TransparentBoundaryWitness ==
    /\ ret.op = "roll_once" /\ ret.reset /\ ret.err = ""
    /\ camels = Camels
    /\ Len(die_state) = NumCamels - 1

\* ------------------------------------------------- properties of the Game

\* the place (position, height) of a camel that stands on the track
PlaceOf(c) == CHOOSE pl \in PlacesOf(c) : TRUE

\* camel c comes before camel d on the track: at a lower position, or at the
\* same position and lower in the stack
Before(c, d) ==
    \/ PlaceOf(c)[1] < PlaceOf(d)[1]
    \/ PlaceOf(c)[1] = PlaceOf(d)[1] /\ PlaceOf(c)[2] < PlaceOf(d)[2]

\* the states of end-to-end scenario 1
Scenario1Start == (1 :> <<"a">>) @@ (2 :> <<"b">>) @@ (3 :> <<"c">>)
Scenario1End == (2 :> <<"b">>) @@ (3 :> <<"c", "a">>)

\* what leaderboard() returned is the track read by ascending position and,
\* within a position, from the bottom of the stack up
LeaderboardOrdered ==
    ret.op = "leaderboard" =>
        /\ IsPerm(ret.order, camels)
        /\ \A c \in camels : PlacesOf(c) # {}
        /\ \A i, j \in DOMAIN ret.order :
              i < j => Before(ret.order[i], ret.order[j])
        /\ pos_to_stack = Scenario1End => ret.order = <<"b", "c", "a">>

\* leaderboard() leaves the board alone; from {1:[a], 2:[b], 3:[c]} the
\* outcome (a, 2) leads to {2:[b], 3:[c, a]}
LeaderboardStep ==
    /\ ret'.op = "leaderboard" =>
          /\ pos_to_stack' = pos_to_stack
          /\ camel_to_pos' = camel_to_pos
    /\ (/\ pos_to_stack = Scenario1Start
        /\ ret'.op = "one_step" /\ ret'.camel = "a" /\ ret'.steps = 2) =>
          pos_to_stack' = Scenario1End

\* C10 (leaderboard): in every Game state leaderboard() returns the pieces by
\* ascending position and, within a position, bottom to top; the result is a
\* permutation of the universe; the board is not changed; from
\* {1:[a], 2:[b], 3:[c]}, (a, 2) gives {2:[b], 3:[c, a]} and [b, c, a].
Leaderboard == []LeaderboardOrdered /\ [][LeaderboardStep]_vars

\* C10's case: leaderboard() was called on {2:[b], 3:[c, a]}
LeaderboardWitness ==
    /\ ret.op = "leaderboard"
    /\ pos_to_stack = Scenario1End
    /\ ret.order = <<"b", "c", "a">>

\* C11 as claimed (one full round per call): every finish_round, in any Game
\* state that one_step and finish_round calls lead to, makes exactly one
\* move_camel call for each piece of the universe.
FullRoundEachCall ==
    ret.op = "finish_round" => IsPerm(ret.moves, camels)

\* C11 as amended: finish_round makes exactly one move_camel call for each
\* piece still in the die's pool when it is called (the pieces one_step has
\* not moved since the last reshuffle) and none for any other piece; so it
\* moves the whole universe when the pool is full at the call.
RemainderRoundStep ==
    ret'.op = "finish_round" =>
        /\ ret'.err = ""
        /\ NoDup(ret'.moves)
        /\ Range(ret'.moves) = Range(die_state)
        /\ Len(die_state) = Cardinality(camels) => IsPerm(ret'.moves, camels)

RemainderRound ==
    [](NoDup(die_state) /\ Range(die_state) \subseteq camels)
        /\ [][RemainderRoundStep]_vars

\* C11's case: finish_round was called after one one_step of the round and
\* moved the other pieces
RemainderRoundWitness ==
    /\ ret.op = "finish_round" /\ ret.err = ""
    /\ camels = Camels
    /\ Len(ret.moves) = NumCamels - 1

\* the boards that the moves of rolls lead through, one after the other,
\* from the board b
RECURSIVE Chain(_, _)
Chain(b, rolls) ==
    IF rolls = <<>> THEN <<b>>
    ELSE <<b>> \o Chain(move_camel(b.pts, b.idx, Head(rolls).camel,
                                   Head(rolls).steps),
                        Tail(rolls))

\* C12 (resolution order): finish_round applies the outcomes in the order
\* roll_finish_round returned them; the k-th move departs from where the first
\* k - 1 moves left its piece; the board after the call is the fold of
\* move_camel over the list, first to last.
ResolutionOrderStep ==
    ret'.op = "finish_round" =>
        \A b \in {Chain([pts |-> pos_to_stack, idx |-> camel_to_pos,
                          err |-> ""], ret'.rolls)} :
           LET rolls == ret'.rolls
               n == Len(rolls)
           IN /\ ret'.moves = CamelsOf(rolls)
              /\ \A k \in 1..n :
                    /\ b[k + 1].err = ""
                    /\ b[k + 1].idx[rolls[k].camel]
                          = b[k].idx[rolls[k].camel] + rolls[k].steps
              /\ pos_to_stack' = b[n + 1].pts
              /\ camel_to_pos' = b[n + 1].idx

ResolutionOrder == [][ResolutionOrderStep]_vars

\* C12's case: a piece moved earlier in the call stands above a piece moved
\* later, so the later move carried it from where the earlier move had put it
ResolutionOrderWitness ==
    /\ ret.op = "finish_round" /\ ret.err = ""
    /\ \E i, j \in DOMAIN ret.moves :
          /\ i < j
          /\ PlaceOf(ret.moves[i])[1] = PlaceOf(ret.moves[j])[1]
          /\ PlaceOf(ret.moves[i])[2] > PlaceOf(ret.moves[j])[2]

\* C13 (derived initial state): Game(camels) without an initial state uses up
\* one roll_finish_round; every piece is placed once, at the position equal
\* to its drawn step count, which is in [1, 3]; pieces on one position are
\* stacked from the bottom up in the order of the list; nothing else is on
\* the track; the die's pool then holds the whole piece set again.
DerivedInitialState ==
    (ret.op = "init" /\ ret.reset) =>
        LET rolls == ret.rolls
        IN /\ IsPerm(CamelsOf(rolls), camels)
           /\ \A i \in DOMAIN rolls :
                 /\ rolls[i].steps \in 1..3
                 /\ PlacesOf(rolls[i].camel) # {}
                 /\ PlaceOf(rolls[i].camel)[1] = rolls[i].steps
                 /\ camel_to_pos[rolls[i].camel] = rolls[i].steps
           /\ \A i, j \in DOMAIN rolls :
                 (i < j /\ rolls[i].steps = rolls[j].steps) =>
                    PlaceOf(rolls[i].camel)[2] < PlaceOf(rolls[j].camel)[2]
           /\ \A c \in Camels :
                 Cardinality(PlacesOf(c)) = IF c \in camels THEN 1 ELSE 0
           /\ DOMAIN pos_to_stack = {rolls[i].steps : i \in DOMAIN rolls}
           /\ DOMAIN camel_to_pos = camels
           /\ IsPerm(die_state, camels)

\* C13's case: Game(['a', 'b', 'c']) put two pieces on one position and the
\* third on another
DerivedInitialStateWitness ==
    /\ ret.op = "init" /\ ret.reset
    /\ camels = Camels
    /\ Cardinality(DOMAIN pos_to_stack) = 2
    /\ \E pos \in DOMAIN pos_to_stack : Len(pos_to_stack[pos]) = 2

\* C15 (the remainder of the round): roll_finish_round returns exactly the
\* pieces that were in the pool when it was called, each once, in pop order
\* (the last element of the pool first), without a reshuffle in between; the
\* call can always be made and returns; after it the pool holds a permutation
\* of the whole piece set.
PoolDrainedStep ==
    ret'.op = "roll_finish_round" =>
        LET n == Len(die_state)
        IN /\ CamelsOf(ret'.rolls) = [i \in 1..n |-> die_state[n + 1 - i]]
           /\ NoDup(CamelsOf(ret'.rolls))
           /\ ret'.err = ""
           /\ IsPerm(die_state', camels)

PoolDrained == [](ENABLED DieRollFinishRound) /\ [][PoolDrainedStep]_vars

\* C15's case: roll_finish_round drained a full pool of three
PoolDrainedWitness ==
    /\ ret.op = "roll_finish_round"
    /\ camels = Camels
    /\ Len(ret.rolls) = NumCamels
    /\ Len(die_state) = NumCamels

\* what C16 says of one move_camel call
TotalMoveStep ==
    ret'.op = "move_camel" =>
        /\ ret'.camel \in DOMAIN camel_to_pos => ret'.err = ""
        /\ ret'.err # "" =>
              /\ pos_to_stack' = pos_to_stack
              /\ camel_to_pos' = camel_to_pos

\* C16 (totality of move_camel): in every Board state that moves lead to,
\* the stack at the indexed position of every indexed piece exists and
\* contains the piece, so move_camel of an indexed piece by any integer
\* completes without error; a call that fails has changed nothing.
TotalMove ==
    [](\A p \in DOMAIN camel_to_pos :
          /\ camel_to_pos[p] \in DOMAIN pos_to_stack
          /\ p \in Range(pos_to_stack[camel_to_pos[p]]))
        /\ [][TotalMoveStep]_vars

\* C16's case: a piece was moved backwards from under another piece, which
\* it carried along
TotalMoveWitness ==
    /\ Moved /\ ret.steps < 0
    /\ LET stack == pos_to_stack[camel_to_pos[ret.camel]]
       IN /\ Len(stack) >= 2
          /\ stack[Len(stack)] # ret.camel
          /\ stack[Len(stack) - 1] = ret.camel

\* one move of camel p by steps, from the board (pts, idx) to the index idx2:
\* steps is in [1, 3], p and the pieces above it are raised by steps, every
\* other piece stays where it was
MoveRaises(pts, idx, idx2, p, steps) ==
    LET stack == pts[idx[p]]
        k == CHOOSE i \in DOMAIN stack : stack[i] = p
        carried == {stack[i] : i \in k..Len(stack)}
    IN /\ steps \in 1..3
       /\ DOMAIN idx2 = DOMAIN idx
       /\ \A q \in carried : idx2[q] = idx[q] + steps
       /\ \A q \in DOMAIN idx \ carried : idx2[q] = idx[q]

\* what C19 says of one call of the Game
MonotoneProgressStep ==
    /\ DOMAIN camel_to_pos' = DOMAIN camel_to_pos
    /\ \A c \in DOMAIN camel_to_pos : camel_to_pos'[c] >= camel_to_pos[c]
    /\ (ret'.op = "one_step" /\ ret'.moves # <<>>) =>
          MoveRaises(pos_to_stack, camel_to_pos, camel_to_pos',
                     ret'.camel, ret'.steps)
    /\ ret'.op = "finish_round" =>
          \A b \in {Chain([pts |-> pos_to_stack, idx |-> camel_to_pos,
                            err |-> ""], ret'.rolls)} :
             /\ camel_to_pos' = b[Len(b)].idx
             /\ \A k \in DOMAIN ret'.rolls :
                   MoveRaises(b[k].pts, b[k].idx, b[k + 1].idx,
                              ret'.rolls[k].camel, ret'.rolls[k].steps)

\* C19 (monotone progress): in a Game driven by one_step and finish_round no
\* piece's position ever decreases; every move_camel raises its subject and
\* the pieces stacked above it by the same amount in [1, 3] and leaves every
\* other piece where it was.
MonotoneProgress == [][MonotoneProgressStep]_vars

\* C19's case: one_step moved a piece that carried another and left a third
\* behind on a lower position
MonotoneProgressWitness ==
    /\ ret.op = "one_step" /\ ret.err = "" /\ ret.moves # <<>>
    /\ camels = Camels
    /\ LET stack == pos_to_stack[camel_to_pos[ret.camel]]
       IN /\ stack[Len(stack)] # ret.camel
          /\ \E c \in camels : camel_to_pos[c] < camel_to_pos[ret.camel]

\* the places (position, height) at which dict d lists camel c
ListedAt(d, c) ==
    {pl \in UNION {{<<pos, i>> : i \in DOMAIN d[pos]} : pos \in DOMAIN d} :
        d[pl[1]][pl[2]] = c}

\* C17 (duplicate rejection at construction): Board(...) and Game(...) on an
\* initial state that lists a piece in two different stacks fail with an
\* error and create nothing; an initial state that lists no piece twice is
\* accepted; so no Board holds a piece at two places.
DuplicateRejected ==
    /\ ret.op \in {"Board", "Game"} =>
          /\ (\E c \in Camels : \E p1, p2 \in ListedAt(ret.arg, c) :
                  p1[1] # p2[1])
                => ret.err = "AssertionError"
          /\ (\A c \in Camels : Cardinality(ListedAt(ret.arg, c)) <= 1)
                => ret.err = ""
          /\ ret.err # "" =>
                (pos_to_stack = <<>> /\ camel_to_pos = <<>> /\ camels = {})
          /\ ret.err = "" => pos_to_stack = ret.arg
    /\ \A c \in Camels : Cardinality(PlacesOf(c)) <= 1

\* C17's case: Game(...) was given a dict that lists one piece in two stacks,
\* each of them holding another piece too, and raised
DuplicateRejectedWitness ==
    /\ ret.op = "Game" /\ ret.err = "AssertionError"
    /\ \E c \in Camels : \E p1, p2 \in ListedAt(ret.arg, c) : p1[1] # p2[1]
    /\ \A pos \in DOMAIN ret.arg : Len(ret.arg[pos]) = 2

\* ------------------------------------------ properties of the held objects

\* no object can be reached from both dicts
Apart(h, d1, d2) ==
    /\ d1 # d2
    /\ StacksOf(h, d1) \cap StacksOf(h, d2) = {}
    /\ ListsOf(h, d1) \cap ListsOf(h, d2) = {}

\* what C14 says of one call
NoAliasingStep ==
    /\ ret'.op = "move_camel" =>
          ValueOf(heap', refs.init_state) = ValueOf(heap, refs.init_state)
    /\ (ret'.op \in {"del", "detach", "attach"} /\ ret'.arg = "init_state") =>
          /\ ValueOf(heap', refs.board) = ValueOf(heap, refs.board)
          /\ pos_to_stack' = pos_to_stack
          /\ camel_to_pos' = camel_to_pos

\* C14 (no aliasing at construction): the Board, built directly or by a Game
\* given an initial state, holds a deep copy: no dict, CamelStack or list of
\* the Board's state is one of the caller's initial state; no move_camel
\* changes the caller's initial state, and nothing the caller does to that
\* state or its stacks changes the Board's track or index.
NoAliasing ==
    [](Apart(heap, refs.init_state, refs.board)) /\ [][NoAliasingStep]_vars

\* C14's case: after the caller had changed its initial state, a move put a
\* piece on top of a stack of the Board, and the two states differ
NoAliasingWitness ==
    /\ Moved /\ ret.steps > 0
    /\ refs.mutations > 0 /\ refs.got = 0
    /\ pos_to_stack[camel_to_pos[ret.camel]][1] # ret.camel
    /\ ValueOf(heap, refs.init_state) # ValueOf(heap, refs.board)

\* what C18 says of one change the caller makes to what get() returned
GotIsACopyStep ==
    (ret'.op \in {"del", "detach", "attach"} /\ ret'.arg = "got") =>
        /\ ValueOf(heap', refs.board) = ValueOf(heap, refs.board)
        /\ DOMAIN camel_to_pos' =
              UNION {Range(pos_to_stack'[pos]) : pos \in DOMAIN pos_to_stack'}
        /\ \A p \in DOMAIN camel_to_pos' :
              /\ camel_to_pos'[p] \in DOMAIN pos_to_stack'
              /\ p \in Range(pos_to_stack'[camel_to_pos'[p]])

\* C18 (accessors hand out copies): State.get and MoveableState.get return
\* an independent deep copy of the position -> stack mapping, so that no
\* change made to what they returned changes the Board's track or breaks the
\* consistency of the index with it.
AccessorsHandOutCopies ==
    /\ [](ret.op = "MoveableState.get" => ret.err = "")
    /\ [](refs.got # 0 => Apart(heap, refs.got, refs.board))
    /\ [][GotIsACopyStep]_vars


\* ---------------------------------------- properties of the order of moves

\* every 2n - 1 consecutive moves of the trail move every camel
EveryWindow ==
    LET w == 2 * Cardinality(camels) - 1
    IN \A first \in 1..(Len(trail.moves) - w + 1) :
          {trail.moves[i].camel : i \in first..(first + w - 1)} = camels

====
